---------------------------- MODULE Spec2Model ----------------------------
(***************************************************************************)
(* SkinScan (src/src/App.js and its two earlier revisions under            *)
(* src/unnamed): the camera session (startCamera / stopAll / runLoop),     *)
(* the per-frame callback `step`, and the photometric scoring helpers.     *)
(*                                                                         *)
(* Numbers.  The scoring helpers work on JavaScript doubles.  Here every   *)
(* real quantity is held in hundredths (a luminance of 182.37 is 18237,    *)
(* a score of 37.64 is 3764); divisions and the square root round down to  *)
(* the next hundredth.  Math.round is applied to these hundredths exactly  *)
(* as the code applies it to the double.                                   *)
(*                                                                         *)
(* A sample list (the `rgb` array that samplePolys returns) is kept        *)
(* run-length encoded: a sequence of runs [c |-> <<r,g,b>>, n |-> k],       *)
(* meaning k consecutive samples of colour c.  All three scorers are       *)
(* sums over the list, so the encoding loses nothing they read.            *)
(***************************************************************************)
EXTENDS Integers, Sequences, FiniteSets, TLC

VARIABLES
    \* ---- React state of App (App.js 41-44)
    status,             \* "Stopped" | "Starting" | "Running"
    faces,              \* useState(0)
    scores,             \* useState({lighting, redness, shine})
    \* ---- refs of App (App.js 35-39)
    landmarkerRef,      \* "null" | "loaded"
    rafRef,             \* 0 (null) or the handle last returned by requestAnimationFrame
    lastVideoTimeRef,   \* -1 or the currentTime of the last processed frame
    \* ---- the <video> element behind videoRef
    srcObject,          \* 0 (null) or the id of the attached MediaStream
    readyState,         \* 0 HAVE_NOTHING, 1 HAVE_METADATA, 2 HAVE_CURRENT_DATA or more
    currentTime,        \* video.currentTime, in frames
    onloadedmetadata,   \* 0 or the startCamera call whose resolver is installed
    \* ---- the host environment
    pending,            \* handles of the step callbacks requestAnimationFrame holds
    liveStreams,        \* ids of the MediaStreams whose tracks are live
    initPc,             \* initLandmarker: "loading" | "done"
    callPc,             \* per startCamera call: "idle" | "awaitMedia" | "awaitMetadata" | "awaitPlay"
    callStream,         \* per startCamera call: the stream it acquired (0: none)
    \* ---- observations
    lastStep,           \* what the last step callback did, and the detector result it saw
    stopAllRan,         \* stopAll has run and no startCamera has reached "Running" since
    lastCall,           \* how the startCamera call that returned last ended
    \* ---- the mount effect (App.js 52-93)
    cancelled,          \* the effect's `cancelled` flag: the teardown has run
    created,            \* FaceLandmarker instances createFromOptions has returned
    closed,             \* FaceLandmarker instances close() was called on
    \* ---- inputs and position of a single scoring pass (pure-function checks)
    cheekRgb,           \* what samplePolys returns for [leftCheek, rightCheek]
    noseRgb,            \* what samplePolys returns for [nose]
    scorePc,            \* "input" | "scored"
    \* ---- AutoTriggerController and the classification call
    nowMs,              \* time of the next frame step
    lastFireMs,         \* TriggerState.lastFireTimestamp
    fires,              \* number of classification calls fired so far
    favourable,         \* every step so far saw lighting 60 and a face
    inflight,           \* number of classification requests not yet answered
    classification,     \* published classification state [status, result]
    \* ---- inputs and results of samplePolys and pointInPoly (pure-function checks)
    polys,              \* the list of polygons handed to samplePolys
    canvas,             \* ctx.canvas: [w, h]
    maxSamples,         \* the sampling budget handed to samplePolys
    samplePc,           \* "input" | "sampled"
    out,                \* positions of the pixels samplePolys returned
    visited,            \* grid points the two loops of samplePolys went through
    classified          \* calls of pointInPoly made so far: [pt, k, inside]

vars == << status, faces, scores, landmarkerRef, rafRef, lastVideoTimeRef,
           srcObject, readyState, currentTime, onloadedmetadata,
           pending, liveStreams, initPc, callPc, callStream,
           lastStep, stopAllRan, lastCall,
           cancelled, created, closed,
           cheekRgb, noseRgb, scorePc,
           nowMs, lastFireMs, fires, favourable, inflight, classification,
           polys, canvas, maxSamples, samplePc, out, visited, classified >>

sessionVars == << status, faces, landmarkerRef, rafRef, lastVideoTimeRef,
                  srcObject, readyState, currentTime, onloadedmetadata,
                  pending, liveStreams, initPc, callPc, callStream,
                  lastStep, stopAllRan, lastCall,
                  cancelled, created, closed >>

mountVars == << cancelled, created, closed >>

scoreVars == << cheekRgb, noseRgb, scorePc >>

triggerVars == << nowMs, lastFireMs, fires, favourable, inflight, classification >>

sampleVars == << polys, canvas, maxSamples, samplePc, out, visited, classified >>

-----------------------------------------------------------------------------
(* Arithmetic helpers *)

Min(a, b) == IF a <= b THEN a ELSE b

Max(a, b) == IF a >= b THEN a ELSE b

SetMin(S) == CHOOSE x \in S : \A y \in S : x <= y

\* A clamp that forgets its lower bound.
ClampNoFloor(v, a, b) == Min(b, v)

\* clamp(v, a, b): Math.max(a, Math.min(b, v))
Clamp(v, a, b) == Max(a, Min(b, v))

\* Math.round of a value held in hundredths: floor(v + 0.5)
Round(v) == (v + 50) \div 100

\* a * b / c rounded down, for 0 <= b <= c, without forming a * b
MulDiv(a, b, c) == (a \div c) * b + ((a % c) * b) \div c

RECURSIVE SqrtBetween(_, _, _)
SqrtBetween(lo, hi, v) ==
    IF lo >= hi THEN lo
    ELSE LET mid == (lo + hi + 1) \div 2
         IN  IF mid * mid <= v THEN SqrtBetween(mid, hi, v)
                               ELSE SqrtBetween(lo, mid - 1, v)

\* Math.sqrt of a value held in ten-thousandths, result in hundredths
Sqrt(v) == SqrtBetween(0, 46340, v)

RECURSIVE SumOver(_, _)
SumOver(f, S) ==
    IF S = {} THEN 0
    ELSE LET x == CHOOSE y \in S : TRUE
         IN  f[x] + SumOver(f, S \ {x})

-----------------------------------------------------------------------------
(* Photometric scoring: App.js 413-463 *)

\* `if (rgb.length < 80) return 0` in each scorer
MinSamples == 80

\* `const lightingOk = lighting >= 35`
LightingThreshold == 35

\* Largest sample list a check feeds to a scorer
MaxSamples == 81

Runs(rgb) == 1..Len(rgb)

\* rgb.length
SampleCount(rgb) == SumOver([i \in Runs(rgb) |-> rgb[i].n], Runs(rgb))

\* y = 0.2126 * r + 0.7152 * g + 0.0722 * b, in hundredths
Luma(c) == (2126 * c[1] + 7152 * c[2] + 722 * c[3]) \div 100

\* sumY2 / n - mean * mean, in ten-thousandths.  The code's difference of two
\* large terms is evaluated as the equal sum over pairs of samples,
\* sum_{i<j} (y_i - y_j)^2 / n^2, which stays within the integers TLC has.
Variance(rgb) ==
    LET n     == SampleCount(rgb)
        pairs == {p \in Runs(rgb) \X Runs(rgb) : p[1] < p[2]}
        term  == [p \in pairs |->
                    LET d == Luma(rgb[p[1]].c) - Luma(rgb[p[2]].c)
                    IN  MulDiv(d * d, rgb[p[1]].n * rgb[p[2]].n, n * n)]
    IN  SumOver(term, pairs)

\* mean = sumY / rgb.length, in hundredths
MeanLuma(rgb) ==
    SumOver([i \in Runs(rgb) |-> rgb[i].n * Luma(rgb[i].c)], Runs(rgb)) \div SampleCount(rgb)

\* std = Math.sqrt(Math.max(0, variance)), in hundredths
StdLuma(rgb) == Sqrt(Max(0, Variance(rgb)))

\* A lighting scorer whose mean term grows as the samples get darker.
LightingInverted(rgb) ==
    LET n == SampleCount(rgb)
    IN  IF n < MinSamples THEN 0
        ELSE LET meanScore     == Clamp(((25500 - MeanLuma(rgb)) * 100) \div 255, 0, 10000)
                 contrastScore == Clamp((StdLuma(rgb) * 100) \div 64, 0, 10000)
             IN  Clamp((75 * meanScore + 25 * contrastScore) \div 100, 0, 10000)

\* A lighting scorer that accepts any non-empty sample list.
LightingNoMinimum(rgb) ==
    LET n == SampleCount(rgb)
    IN  IF n < 1 THEN 0
        ELSE LET sumY == SumOver([i \in Runs(rgb) |-> rgb[i].n * Luma(rgb[i].c)], Runs(rgb))
                 mean == sumY \div n
                 std  == Sqrt(Max(0, Variance(rgb)))
                 meanScore     == Clamp((mean * 100) \div 255, 0, 10000)
                 contrastScore == Clamp((std * 100) \div 64, 0, 10000)
             IN  Clamp((75 * meanScore + 25 * contrastScore) \div 100, 0, 10000)

\* lightingQualityFromPolys, given what samplePolys(ctx, polys, 2500) returned
LightingQualityFromPolys(rgb) ==
    LET n == SampleCount(rgb)
    IN  IF n < MinSamples THEN 0
        ELSE LET sumY == SumOver([i \in Runs(rgb) |-> rgb[i].n * Luma(rgb[i].c)], Runs(rgb))
                 mean == sumY \div n
                 std  == Sqrt(Max(0, Variance(rgb)))
                 meanScore     == Clamp((mean * 100) \div 255, 0, 10000)
                 contrastScore == Clamp((std * 100) \div 64, 0, 10000)
             IN  Clamp((75 * meanScore + 25 * contrastScore) \div 100, 0, 10000)

\* rednessFromPolys: acc += r - (g + b) / 2; clamp(((mean + 20) / 120) * 100, 0, 100)
RednessFromPolys(rgb) ==
    LET n == SampleCount(rgb)
    IN  IF n < MinSamples THEN 0
        ELSE LET acc2 == SumOver([i \in Runs(rgb) |->
                            rgb[i].n * (2 * rgb[i].c[1] - rgb[i].c[2] - rgb[i].c[3])],
                            Runs(rgb))          \* twice the code's acc
                 mean == (acc2 * 50) \div n
             IN  Clamp(((mean + 2000) * 100) \div 120, 0, 10000)

\* `if (v > 210 && sat < 0.35) shiny++`, sat = maxc === 0 ? 0 : (maxc - minc) / maxc
IsShiny(c) ==
    LET maxc == Max(c[1], Max(c[2], c[3]))
        minc == Min(c[1], Min(c[2], c[3]))
    IN  maxc > 210 /\ (maxc = 0 \/ (maxc - minc) * 100 < 35 * maxc)

\* shineFromPolys: clamp(frac * 250, 0, 100)
ShineFromPolys(rgb) ==
    LET n == SampleCount(rgb)
    IN  IF n < MinSamples THEN 0
        ELSE LET shiny == SumOver([i \in Runs(rgb) |->
                             IF IsShiny(rgb[i].c) THEN rgb[i].n ELSE 0], Runs(rgb))
             IN  Clamp((shiny * 25000) \div n, 0, 10000)

ZeroScores == [lighting |-> 0, redness |-> 0, shine |-> 0]

\* A scoring tail that computes redness and shine whatever the lighting is.
ScoreSetUngated(cheek, nose) ==
    [lighting |-> Round(LightingQualityFromPolys(cheek)),
     redness  |-> Round(RednessFromPolys(cheek)),
     shine    |-> Round(ShineFromPolys(nose))]

\* drawAndScore, App.js 216-240: the ScoreSet handed to setScores, given the
\* samples read for the two cheeks and for the nose
ScoreSet(cheek, nose) ==
    LET lighting   == LightingQualityFromPolys(cheek)
        lightingOk == lighting >= LightingThreshold * 100
        redness    == IF lightingOk THEN RednessFromPolys(cheek) ELSE 0
        shine      == IF lightingOk THEN ShineFromPolys(nose) ELSE 0
    IN  [lighting |-> Round(lighting),
         redness  |-> Round(redness),
         shine    |-> Round(shine)]

-----------------------------------------------------------------------------
(* Initial values of the three groups of variables *)

\* startCamera calls that may be awaiting at the same time
MaxCalls == 1

\* MediaStreams that may be live at the same time
MaxStreams == 2

\* Largest video.currentTime, in frames
MaxTime == 1

Calls == 1..MaxCalls

Streams == 1..MaxStreams

\* requestAnimationFrame handles: one per loop that can be pending, and one
\* more for a stale value of rafRef.current
Handles == 1..(MaxStreams + 1)

\* App.js 35-44 and the element, environment and observations before any click
SessionInit ==
    /\ status = "Stopped"
    /\ faces = 0
    /\ landmarkerRef = "null"
    /\ rafRef = 0
    /\ lastVideoTimeRef = -1
    /\ srcObject = 0
    /\ readyState = 0
    /\ currentTime = 0
    /\ onloadedmetadata = 0
    /\ pending = {}
    /\ liveStreams = {}
    /\ initPc = "loading"
    /\ callPc = [c \in Calls |-> "idle"]
    /\ callStream = [c \in Calls |-> 0]
    /\ lastStep = [kind |-> "none", nfaces |-> 0, lmLen |-> 0]
    /\ stopAllRan = FALSE
    /\ lastCall = "none"
    /\ cancelled = FALSE
    /\ created = 0
    /\ closed = 0

ScoreIdle ==
    /\ cheekRgb = << >>
    /\ noseRgb = << >>
    /\ scorePc = "input"

TriggerIdle ==
    /\ nowMs = 0
    /\ lastFireMs = -1
    /\ fires = 0
    /\ favourable = TRUE
    /\ inflight = 0
    /\ classification = [status |-> "Idle", result |-> 0]

SampleIdle ==
    /\ polys = << >>
    /\ canvas = [w |-> 0, h |-> 0]
    /\ maxSamples = 0
    /\ samplePc = "input"
    /\ out = {}
    /\ visited = 0
    /\ classified = << >>

-----------------------------------------------------------------------------
(* A single scoring pass over arbitrary sample lists *)

Black     == << 0, 0, 0 >>
DarkRed   == << 90, 20, 20 >>
Dim       == << 64, 64, 64 >>
Gray      == << 128, 128, 128 >>
Bright    == << 192, 192, 192 >>
Skin      == << 224, 172, 150 >>
White     == << 255, 255, 255 >>
Green     == << 0, 255, 0 >>

Palette == {Black, DarkRed, Dim, Gray, Bright, Skin, White, Green}

SampleCounts == {0, MinSamples - 1, MinSamples, MaxSamples}

\* Sample lists of one colour, and of two colours in equal parts
SampleLists(colours) ==
    {<< [c |-> c1, n |-> k] >> : c1 \in colours, k \in SampleCounts}
    \cup {<< [c |-> c1, n |-> k \div 2], [c |-> c2, n |-> k - k \div 2] >> :
             c1 \in colours, c2 \in colours, k \in SampleCounts \ {0}}

InitScore ==
    /\ SessionInit
    /\ TriggerIdle
    /\ SampleIdle
    /\ scores = ZeroScores
    /\ cheekRgb \in SampleLists(Palette)
    /\ noseRgb \in SampleLists({Gray, White})
    /\ scorePc = "input"

\* The scoring tail of drawAndScore applied to the sample lists
Score ==
    /\ scorePc = "input"
    /\ scores' = ScoreSet(cheekRgb, noseRgb)
    /\ scorePc' = "scored"
    /\ UNCHANGED << cheekRgb, noseRgb >>
    /\ UNCHANGED sessionVars
    /\ UNCHANGED triggerVars
    /\ UNCHANGED sampleVars

NextScore == Score

SpecScore == InitScore /\ [][NextScore]_vars

(* C6: in every ScoreSet published by drawAndScore, a lighting score below
   the adequacy threshold 35 (the published, rounded value as well as the
   unrounded one compared with 35) comes with redness = 0 and shine = 0,
   whatever the sampled pixels are. *)
C6_LowLightGating ==
    scorePc = "scored" =>
        ( (scores.lighting < LightingThreshold
            \/ LightingQualityFromPolys(cheekRgb) < LightingThreshold * 100)
          => scores.redness = 0 /\ scores.shine = 0 )

\* A dark but adequately sampled frame whose pixels would score on both
\* redness and shine has been published with both forced to 0.
C6_Witness ==
    /\ scorePc = "scored"
    /\ scores.lighting > 0
    /\ scores.lighting < LightingThreshold
    /\ RednessFromPolys(cheekRgb) > 0
    /\ ShineFromPolys(noseRgb) > 0
    /\ scores.redness = 0
    /\ scores.shine = 0

(* C7: when the sampler returns fewer than 80 samples for the cheeks, the
   published lighting, redness and shine are all 0 whatever the pixels are;
   and each of lightingQualityFromPolys, rednessFromPolys, shineFromPolys
   returns 0 on a sample list of fewer than 80 entries (so a nose sampled
   below 80 publishes shine = 0). *)
C7_UnderSampling ==
    scorePc = "scored" =>
        /\ SampleCount(cheekRgb) < MinSamples =>
              /\ LightingQualityFromPolys(cheekRgb) = 0
              /\ RednessFromPolys(cheekRgb) = 0
              /\ scores = ZeroScores
        /\ SampleCount(noseRgb) < MinSamples =>
              /\ ShineFromPolys(noseRgb) = 0
              /\ scores.shine = 0

\* 79 white cheek samples and a fully sampled white nose: everything is 0.
C7_Witness ==
    /\ scorePc = "scored"
    /\ cheekRgb = << [c |-> White, n |-> MinSamples - 1] >>
    /\ SampleCount(noseRgb) >= MinSamples
    /\ ShineFromPolys(noseRgb) > 0
    /\ scores = ZeroScores

\* Mean, standard deviation and lighting score of every sample list that
\* has the 80 samples the scorer asks for
LightingTable ==
    [l \in {x \in SampleLists(Palette) : SampleCount(x) >= MinSamples} |->
        [mean |-> MeanLuma(l), std |-> StdLuma(l), lighting |-> LightingQualityFromPolys(l)]]

\* clamp(0.75 * clamp(mean / 255 * 100, 0, 100) + 0.25 * clamp(std / 64 * 100, 0, 100), 0, 100)
ClaimedLighting(mean, std) ==
    Clamp((75 * Clamp((mean * 100) \div 255, 0, 10000)
           + 25 * Clamp((std * 100) \div 64, 0, 10000)) \div 100, 0, 10000)

(* C17: on a sample list of at least 80 samples lightingQualityFromPolys
   returns clamp(0.75 * clamp(mean/255*100, 0, 100)
                 + 0.25 * clamp(std/64*100, 0, 100), 0, 100)
   of the BT.709 luminance; the result lies in [0,100], and no sample list
   with the same standard deviation and a mean luminance that is not
   higher gets a higher score. *)
C17_LightingScore ==
    (scorePc = "scored" /\ SampleCount(cheekRgb) >= MinSamples) =>
        /\ LightingTable[cheekRgb].lighting =
              ClaimedLighting(MeanLuma(cheekRgb), StdLuma(cheekRgb))
        /\ LightingTable[cheekRgb].lighting \in 0..10000
        /\ scores.lighting = Round(LightingTable[cheekRgb].lighting)
        /\ \A l \in DOMAIN LightingTable :
              ( /\ LightingTable[l].std = LightingTable[cheekRgb].std
                /\ LightingTable[l].mean <= LightingTable[cheekRgb].mean )
              => LightingTable[l].lighting <= LightingTable[cheekRgb].lighting

\* A scored list of two grays, and a darker list with the same standard
\* deviation that scores strictly lower.
C17_Witness ==
    /\ scorePc = "scored"
    /\ SampleCount(cheekRgb) >= MinSamples
    /\ LightingTable[cheekRgb].std > 0
    /\ scores.lighting \in 1..99
    /\ \E l \in DOMAIN LightingTable :
          /\ LightingTable[l].std = LightingTable[cheekRgb].std
          /\ LightingTable[l].mean < LightingTable[cheekRgb].mean
          /\ LightingTable[l].lighting < LightingTable[cheekRgb].lighting

-----------------------------------------------------------------------------
(* Region geometry: pointInPoly and samplePolys, App.js 365-411 and 465-478 *)

\* toPx gives pixel coordinates as doubles (p.x * w); a vertex is held here
\* in tenths of a pixel
Unit == 10

\* The point at x, y whole pixels
P(x, y) == << x * Unit, y * Unit >>

\* Math.floor and Math.ceil of a coordinate, in whole pixels
Floor(v) == v \div Unit

Ceil(v) == -((-v) \div Unit)

SetMax(S) == CHOOSE x \in S : \A y \in S : x >= y

\* The rows-only half of the edge test of pointInPoly.
CrossesRow(pt, a, b) == (a[2] > pt[2]) # (b[2] > pt[2])

\* The edge test of pointInPoly for the edge poly[i] = a, poly[j] = b:
\*   yi > pt.y !== yj > pt.y &&
\*   pt.x < ((xj - xi) * (pt.y - yi)) / (yj - yi + 1e-9) + xi
\* With q = pt.x - xi, n = (xj - xi) * (pt.y - yi) and d = yj - yi (not 0
\* once the first conjunct holds) the comparison is q < n / (d + 1e-9).  On
\* coordinates in tenths q * d and n are integers and 1e-9 * q is far below
\* the step between them, so the 1e-9 decides the comparison exactly when
\* q * d = n, by the sign of q.
Intersect(pt, a, b) ==
    LET q == pt[1] - a[1]
        n == (b[1] - a[1]) * (pt[2] - a[2])
        d == b[2] - a[2]
    IN  /\ CrossesRow(pt, a, b)
        /\ IF d > 0 THEN q * d < n \/ (q * d = n /\ q < 0)
                    ELSE q * d > n \/ (q * d = n /\ q > 0)

\* A ray cast that counts every edge whose rows straddle the point.
PointInPolyAnyCrossing(pt, poly) ==
    LET n == Len(poly)
        crossings == {i \in 1..n : CrossesRow(pt, poly[i], poly[IF i = 1 THEN n ELSE i - 1])}
    IN  Cardinality(crossings) % 2 = 1

\* pointInPoly: `inside` is flipped once per edge (i, j = i - 1, cyclic) that
\* passes the edge test
PointInPoly(pt, poly) ==
    LET n == Len(poly)
        crossings == {i \in 1..n : Intersect(pt, poly[i], poly[IF i = 1 THEN n ELSE i - 1])}
    IN  Cardinality(crossings) % 2 = 1

\* polys.flat().length
PointCount(ps) == SumOver([k \in 1..Len(ps) |-> Len(ps[k])], 1..Len(ps))

\* polys.flat() as a set
Vertices(ps) == UNION {{ps[k][i] : i \in 1..Len(ps[k])} : k \in 1..Len(ps)}

\* The bounding box of all vertices, clamped to the canvas (App.js 369-379)
BoundingBox(ps, cv) ==
    LET xs == {v[1] : v \in Vertices(ps)}
        ys == {v[2] : v \in Vertices(ps)}
    IN  [minX |-> Max(0, Floor(SetMin(xs))),
         minY |-> Max(0, Floor(SetMin(ys))),
         maxX |-> Min(cv.w - 1, Ceil(SetMax(xs))),
         maxY |-> Min(cv.h - 1, Ceil(SetMax(ys)))]

\* A stride half as long.
StrideHalved(w, h, budget) == Max(1, Sqrt((w * h) \div budget) \div 2)

\* Math.max(1, Math.floor(Math.sqrt(totalPixels / maxSamples)))
Stride(w, h, budget) == Max(1, Sqrt((w * h) \div budget))

\* samplePolys(ctx, polys, maxSamples): the positions of the pixels pushed to
\* `out`, and the number of grid points the two loops went through
SamplePolys(ps, cv, budget) ==
    IF PointCount(ps) < 3 THEN [out |-> {}, visited |-> 0]
    ELSE LET bb == BoundingBox(ps, cv)
             w  == bb.maxX - bb.minX + 1
             h  == bb.maxY - bb.minY + 1
         IN  IF w <= 2 \/ h <= 2 THEN [out |-> {}, visited |-> 0]
             ELSE LET step == Stride(w, h, budget)
                      grid == {<< bb.minX + i * step, bb.minY + j * step >> :
                                  i \in 0..((w - 1) \div step),
                                  j \in 0..((h - 1) \div step)}
                  IN  [out     |-> {g \in grid : \E k \in 1..Len(ps) :
                                        PointInPoly(P(g[1], g[2]), ps[k])},
                       visited |-> Cardinality(grid)]

\* Polygons handed to the sampler
Square    == << P(0, 0), P(10, 0), P(10, 10), P(0, 10) >>
Descending == << P(10, 0), P(0, 10) >>
Ascending  == << P(0, 0), P(10, 10) >>
LongSegment == << P(20, 0), P(0, 20) >>
Triangle  == << << 12, 7 >>, << 305, 33 >>, << 151, 402 >> >>
FullFrame == << P(0, 0), P(1919, 0), P(1919, 1079), P(0, 1079) >>
Block     == << P(0, 0), P(99, 0), P(99, 98), P(0, 98) >>
Sliver    == << P(0, 0), P(2, 0), P(1, 65534) >>

PolyLists ==
    { << >>,
      << Square >>,
      << Descending >>,
      << Descending, Ascending >>,
      << Descending, Descending >>,
      << LongSegment, Square >>,
      << << P(3, 3) >>, << P(8, 8) >>, << P(1, 9) >> >>,
      << Triangle >>,
      << Triangle, Square >>,
      << FullFrame >>,
      << Block >>,
      << Sliver >> }

\* Canvas sizes (the canvas takes the size of the video frame, App.js
\* 196-201): a landscape frame, a large portrait frame, a canvas smaller
\* than the regions, and a strip three pixels wide and as tall as a canvas
\* can be allocated
Canvases ==
    { [w |-> 1920, h |-> 1080], [w |-> 4320, h |-> 7680],
      [w |-> 8, h |-> 8], [w |-> 3, h |-> 65535] }

\* The budget the three scorers pass, and the default of samplePolys
Budgets == {2500, 3000}

\* Points handed to pointInPoly
ProbePoints == { P(5, 5), P(15, 5), P(0, 0), P(10, 10) }

\* Calls of pointInPoly followed in one behaviour
MaxProbes == 3

InitSample ==
    /\ SessionInit
    /\ TriggerIdle
    /\ ScoreIdle
    /\ scores = ZeroScores
    /\ polys \in PolyLists
    /\ canvas \in Canvases
    /\ maxSamples \in Budgets
    /\ samplePc = "input"
    /\ out = {}
    /\ visited = 0
    /\ classified = << >>

\* One call of samplePolys.  A behaviour follows either this call or calls
\* of pointInPoly: the two do not share anything.
Sample ==
    /\ samplePc = "input"
    /\ classified = << >>
    /\ LET r == SamplePolys(polys, canvas, maxSamples)
       IN  /\ out' = r.out
           /\ visited' = r.visited
    /\ samplePc' = "sampled"
    /\ UNCHANGED << polys, canvas, maxSamples, classified >>
    /\ UNCHANGED << scores, sessionVars, scoreVars, triggerVars >>

\* One call of pointInPoly on the k-th polygon
Classify(pt, k) ==
    /\ samplePc = "input"
    /\ Len(classified) < MaxProbes
    /\ k \in 1..Len(polys)
    /\ classified' = Append(classified,
                            [pt |-> pt, k |-> k, inside |-> PointInPoly(pt, polys[k])])
    /\ UNCHANGED << polys, canvas, maxSamples, samplePc, out, visited >>
    /\ UNCHANGED << scores, sessionVars, scoreVars, triggerVars >>

NextSample ==
    \/ Sample
    \/ \E pt \in ProbePoints, k \in 1..3 : Classify(pt, k)

SpecSample == InitSample /\ [][NextSample]_vars

\* The polygons of the list that have at least 3 vertices
Proper(ps) == {k \in 1..Len(ps) : Len(ps[k]) >= 3}

(* C11: samplePolys returns no sample for a polygon with fewer than 3
   vertices, alone or together with other polygons: every returned sample
   lies inside a polygon of the list that has at least 3 vertices, so a
   list of degenerate polygons only yields an empty sample set. *)
C11_DegeneratePolygons ==
    samplePc = "sampled" =>
        \A g \in out : \E k \in Proper(polys) : PointInPoly(P(g[1], g[2]), polys[k])

(* C16: for the square (0,0),(10,0),(10,10),(0,10), pointInPoly classifies
   (5,5) as inside and (15,5) as outside, and a point handed to it again,
   a vertex of the polygon included, gets the classification it got
   before. *)
C16_PointInPoly ==
    \A i \in 1..Len(classified) :
        /\ polys[classified[i].k] = Square =>
              /\ classified[i].pt = P(5, 5) => classified[i].inside
              /\ classified[i].pt = P(15, 5) => ~classified[i].inside
        /\ \A j \in 1..Len(classified) :
              (classified[j].pt = classified[i].pt /\ classified[j].k = classified[i].k)
                  => classified[j].inside = classified[i].inside

\* (5,5) was found inside the square, and the vertex (0,0) was classified
\* twice with one result.
C16_Witness ==
    /\ polys = << Square >>
    /\ Len(classified) = 3
    /\ classified[1] = [pt |-> P(5, 5), k |-> 1, inside |-> TRUE]
    /\ classified[2].pt = P(0, 0)
    /\ classified[3] = classified[2]

(* C18: the stride max(1, floor(sqrt(w*h / maxSamples))) keeps the work of
   samplePolys within the budget: for every clamped bounding box, a box
   three pixels wide and as long as the canvas included, the grid points
   gone through number at most 4 * maxSamples, and the samples returned
   are no more than the grid points. *)
C18_SamplingBudget ==
    samplePc = "sampled" =>
        /\ Cardinality(out) <= visited
        /\ visited <= 4 * maxSamples

\* The three-pixel strip was sampled over its full length and took more
\* grid points than the budget.
C18_Witness ==
    /\ samplePc = "sampled"
    /\ polys = << Sliver >>
    /\ canvas = [w |-> 3, h |-> 65535]
    /\ visited > maxSamples
    /\ out # {}

-----------------------------------------------------------------------------
(* The camera session: App.js 52-179 *)

notSession == << cheekRgb, noseRgb, scorePc,
                 nowMs, lastFireMs, fires, favourable, inflight, classification,
                 polys, canvas, maxSamples, samplePc, out, visited, classified >>

\* createFromOptions resolves with a new instance (App.js 63-77): after
\* `if (cancelled) return` the instance is dropped as it is; otherwise
\* landmarkerRef.current = landmarker
LandmarkerLoaded ==
    /\ initPc = "loading"
    /\ initPc' = "done"
    /\ created' = created + 1
    /\ landmarkerRef' = IF cancelled THEN landmarkerRef ELSE "loaded"
    /\ UNCHANGED << status, faces, scores, rafRef, lastVideoTimeRef, srcObject,
                    readyState, currentTime, onloadedmetadata, pending,
                    liveStreams, callPc, callStream, lastStep, stopAllRan,
                    lastCall, cancelled, closed >>
    /\ UNCHANGED notSession

\* initLandmarker rejects (App.js 78-81): only the debug text changes
LandmarkerFailed ==
    /\ initPc = "loading"
    /\ initPc' = "done"
    /\ UNCHANGED << status, faces, scores, landmarkerRef, rafRef, lastVideoTimeRef,
                    srcObject, readyState, currentTime, onloadedmetadata, pending,
                    liveStreams, callPc, callStream, lastStep, stopAllRan,
                    lastCall >>
    /\ UNCHANGED mountVars
    /\ UNCHANGED notSession

\* startCamera up to `await getUserMedia` (App.js 96-104).  The call takes the
\* lowest free slot.
StartCamera(c) ==
    /\ callPc[c] = "idle"
    /\ \A d \in Calls : callPc[d] = "idle" => c <= d
    /\ status' = "Starting"
    /\ lastCall' = "none"
    /\ callPc' = [callPc EXCEPT ![c] = "awaitMedia"]
    /\ UNCHANGED << faces, scores, landmarkerRef, rafRef, lastVideoTimeRef, srcObject,
                    readyState, currentTime, onloadedmetadata, pending,
                    liveStreams, initPc, callStream, lastStep, stopAllRan >>
    /\ UNCHANGED mountVars
    /\ UNCHANGED notSession

\* A catch block that leaves the status as it is.
MediaRejectSilent(c) ==
    /\ callPc[c] = "awaitMedia"
    /\ lastCall' = "rejected"
    /\ callPc' = [callPc EXCEPT ![c] = "idle"]
    /\ UNCHANGED << status, faces, scores, landmarkerRef, rafRef, lastVideoTimeRef,
                    srcObject, readyState, currentTime, onloadedmetadata, pending,
                    liveStreams, initPc, callStream, lastStep, stopAllRan >>
    /\ UNCHANGED mountVars
    /\ UNCHANGED notSession

\* getUserMedia rejects: the catch block (App.js 117-121)
MediaReject(c) ==
    /\ callPc[c] = "awaitMedia"
    /\ status' = "Stopped"
    /\ lastCall' = "rejected"
    /\ callPc' = [callPc EXCEPT ![c] = "idle"]
    /\ UNCHANGED << faces, scores, landmarkerRef, rafRef, lastVideoTimeRef, srcObject,
                    readyState, currentTime, onloadedmetadata, pending,
                    liveStreams, initPc, callStream, lastStep, stopAllRan >>
    /\ UNCHANGED mountVars
    /\ UNCHANGED notSession

\* getUserMedia resolves with a new live stream; video.srcObject = stream and
\* video.onloadedmetadata = resolver (App.js 101-111).  Assigning srcObject
\* restarts the element: readyState and currentTime go back to 0.  A call that
\* was waiting on the resolver this one overwrites can never resume: its slot
\* is free again.  The stream srcObject held before stays live.
MediaResolve(c) ==
    /\ callPc[c] = "awaitMedia"
    /\ \E s \in Streams :
          /\ s \notin liveStreams
          /\ \A d \in Calls : callStream[d] # s
          /\ \A t \in Streams :
                (t \notin liveStreams /\ \A d \in Calls : callStream[d] # t) => s <= t
          /\ liveStreams' = liveStreams \cup {s}
          /\ srcObject' = s
          /\ callStream' = [d \in Calls |->
                IF d = c THEN s
                ELSE IF callPc[d] = "awaitMetadata" THEN 0 ELSE callStream[d]]
    /\ callPc' = [d \in Calls |->
          IF d = c THEN "awaitMetadata"
          ELSE IF callPc[d] = "awaitMetadata" THEN "idle" ELSE callPc[d]]
    /\ onloadedmetadata' = c
    /\ readyState' = 0
    /\ currentTime' = 0
    /\ UNCHANGED << status, faces, scores, landmarkerRef, rafRef, lastVideoTimeRef,
                    pending, initPc, lastStep, stopAllRan, lastCall >>
    /\ UNCHANGED mountVars
    /\ UNCHANGED notSession

\* The element fires loadedmetadata: the installed resolver resumes its call,
\* which calls video.play() (App.js 109-113)
LoadedMetadata ==
    /\ srcObject # 0
    /\ readyState = 0
    /\ readyState' = 1
    /\ onloadedmetadata # 0
    /\ callPc[onloadedmetadata] = "awaitMetadata"
    /\ callPc' = [callPc EXCEPT ![onloadedmetadata] = "awaitPlay"]
    /\ UNCHANGED << status, faces, scores, landmarkerRef, rafRef, lastVideoTimeRef,
                    srcObject, currentTime, onloadedmetadata, pending,
                    liveStreams, initPc, callStream, lastStep, stopAllRan,
                    lastCall >>
    /\ UNCHANGED mountVars
    /\ UNCHANGED notSession

\* The first frame of the stream is decoded: video.readyState >= 2 (read at
\* App.js 159)
DataReady ==
    /\ srcObject # 0
    /\ readyState = 1
    /\ readyState' = 2
    /\ UNCHANGED << status, faces, scores, landmarkerRef, rafRef, lastVideoTimeRef,
                    srcObject, currentTime, onloadedmetadata, pending,
                    liveStreams, initPc, callPc, callStream, lastStep, stopAllRan,
                    lastCall >>
    /\ UNCHANGED mountVars
    /\ UNCHANGED notSession

\* The stream delivers another frame: video.currentTime grows (read at App.js 159)
TimeAdvance ==
    /\ srcObject # 0
    /\ readyState = 2
    /\ currentTime < MaxTime
    /\ currentTime' = currentTime + 1
    /\ UNCHANGED << status, faces, scores, landmarkerRef, rafRef, lastVideoTimeRef,
                    srcObject, readyState, onloadedmetadata, pending,
                    liveStreams, initPc, callPc, callStream, lastStep, stopAllRan,
                    lastCall >>
    /\ UNCHANGED mountVars
    /\ UNCHANGED notSession

\* A runLoop that does not look at landmarkerRef.current.
RunLoopUnchecked ==
    /\ status' = "Running"
    /\ Handles \ pending # {}
    /\ LET h == SetMin(Handles \ pending)
       IN  /\ pending' = pending \cup {h}
           /\ rafRef' = h

\* runLoop (App.js 147-179) as called at the end of startCamera: without a
\* landmarker it sets the status back to "Stopped"; otherwise it schedules
\* the first step and stores the handle.
RunLoop ==
    IF landmarkerRef = "null"
    THEN /\ status' = "Stopped"
         /\ UNCHANGED << pending, rafRef >>
    ELSE /\ status' = "Running"
         /\ Handles \ pending # {}
         /\ LET h == SetMin(Handles \ pending)
            IN  /\ pending' = pending \cup {h}
                /\ rafRef' = h

\* video.play() resolves: setStatus("Running"); runLoop() (App.js 113-116).
\* The promise of a play() is rejected when srcObject is reassigned, so only
\* the call whose stream is still attached gets here.
PlayResolve(c) ==
    /\ callPc[c] = "awaitPlay"
    /\ callStream[c] = srcObject
    /\ readyState = 2
    /\ RunLoop
    /\ stopAllRan' = FALSE
    /\ lastCall' = IF landmarkerRef = "null" THEN "noLandmarker" ELSE "running"
    /\ callPc' = [callPc EXCEPT ![c] = "idle"]
    /\ callStream' = [callStream EXCEPT ![c] = 0]
    /\ UNCHANGED << faces, scores, landmarkerRef, lastVideoTimeRef, srcObject,
                    readyState, currentTime, onloadedmetadata,
                    liveStreams, initPc, lastStep >>
    /\ UNCHANGED mountVars
    /\ UNCHANGED notSession

\* video.play() rejects: the catch block (App.js 117-121)
PlayReject(c) ==
    /\ callPc[c] = "awaitPlay"
    /\ status' = "Stopped"
    /\ lastCall' = "rejected"
    /\ callPc' = [callPc EXCEPT ![c] = "idle"]
    /\ callStream' = [callStream EXCEPT ![c] = 0]
    /\ UNCHANGED << faces, scores, landmarkerRef, rafRef, lastVideoTimeRef, srcObject,
                    readyState, currentTime, onloadedmetadata, pending,
                    liveStreams, initPc, lastStep, stopAllRan >>
    /\ UNCHANGED mountVars
    /\ UNCHANGED notSession

\* stopAll (App.js 124-144): cancelAnimationFrame(rafRef.current) removes that
\* one handle; the tracks of the stream in video.srcObject are stopped and
\* srcObject is set to null, which empties the element.  A call waiting for
\* loadedmetadata of the detached stream can never resume.
StopAll ==
    /\ status' = "Stopped"
    /\ faces' = 0
    /\ scores' = ZeroScores
    /\ pending' = IF rafRef # 0 THEN pending \ {rafRef} ELSE pending
    /\ liveStreams' = IF srcObject # 0 THEN liveStreams \ {srcObject} ELSE liveStreams
    /\ srcObject' = 0
    /\ readyState' = 0
    /\ currentTime' = 0
    /\ callPc' = [d \in Calls |-> IF callPc[d] = "awaitMetadata" THEN "idle" ELSE callPc[d]]
    /\ callStream' = [d \in Calls |-> IF callPc[d] = "awaitMetadata" THEN 0 ELSE callStream[d]]
    /\ stopAllRan' = TRUE
    /\ lastCall' = "none"
    /\ UNCHANGED << landmarkerRef, rafRef, lastVideoTimeRef, onloadedmetadata,
                    initPc, lastStep >>
    /\ UNCHANGED mountVars
    /\ UNCHANGED notSession

-----------------------------------------------------------------------------
(* The frame callback: App.js 158-176 and drawAndScore, App.js 191-241 *)

\* `numFaces: 1` in the landmarker options
NumFaces == 1

\* Lengths of the landmark list of a detected face: the full mesh, and a
\* list that stops short of index 425
LandmarkCounts == {420, 478}

\* What detectForVideo may return: no face, or faces with their landmarks
Results ==
    {[nfaces |-> 0, lmLen |-> 0]}
    \cup {[nfaces |-> k, lmLen |-> l] : k \in 1..NumFaces, l \in LandmarkCounts}

LeftCheekIdx  == << 50, 187, 205, 36, 142, 126, 100, 47 >>
RightCheekIdx == << 280, 411, 425, 266, 371, 355, 329, 277 >>
NoseIdx       == << 1, 2, 98, 327, 168 >>

\* polyFrom(lm, idxs, w, h) = idxs.map((i) => toPx(lm[i], w, h)).  toPx reads
\* p.x of its argument: for an index past the end of lm the argument is
\* undefined and the read raises a TypeError.
PolyFrom(lmLen, idxs) ==
    [raised   |-> \E i \in 1..Len(idxs) : idxs[i] >= lmLen,
     vertices |-> Len(idxs)]

\* drawAndScore raises when one of its three polyFrom calls does
DrawAndScoreRaises(lmLen) ==
    \/ PolyFrom(lmLen, LeftCheekIdx).raised
    \/ PolyFrom(lmLen, RightCheekIdx).raised
    \/ PolyFrom(lmLen, NoseIdx).raised

\* The colour drawPoly fills the regions with, as getImageData reads it back,
\* and the colour of a canvas pixel nothing was drawn on
OverlayFill == Green
Untouched == Black

\* What samplePolys reads for a region from ctx, the 2d context of the
\* overlay canvas: n grid points lie inside the polygons, of which `clear`
\* are pixels the fill did not cover.
CanvasSamples(n, clear) ==
    << [c |-> OverlayFill, n |-> n - clear], [c |-> Untouched, n |-> clear] >>

\* Outcomes of the geometry of a frame: grid points inside the cheeks, how
\* many of them read back untouched, and grid points inside the nose
Geometries ==
    {[cheekN |-> n, clear |-> e, noseN |-> MaxSamples] :
        n \in {MinSamples - 1, MaxSamples}, e \in {0, MaxSamples \div 2}}

\* The ScoreSet drawAndScore publishes for each outcome of the geometry
CanvasScores ==
    [g \in Geometries |->
        ScoreSet(CanvasSamples(g.cheekN, Min(g.clear, g.cheekN)),
                 CanvasSamples(g.noseN, 0))]

\* rafRef.current = requestAnimationFrame(step), run by the callback h
Rearm(h) ==
    LET h2 == SetMin(Handles \ (pending \ {h}))
    IN  /\ pending' = (pending \ {h}) \cup {h2}
        /\ rafRef' = h2

NewFrame == readyState >= 2 /\ currentTime # lastVideoTimeRef

stepFrame == << status, landmarkerRef, srcObject, readyState, currentTime,
                onloadedmetadata, liveStreams, initPc, callPc, callStream,
                stopAllRan, lastCall >>

\* No new frame: the callback only re-arms
StepSkip(h) ==
    /\ ~NewFrame
    /\ Rearm(h)
    /\ lastStep' = [kind |-> "skip", nfaces |-> 0, lmLen |-> 0]
    /\ UNCHANGED << faces, scores, lastVideoTimeRef >>

\* A no-face branch that clears the overlay and leaves the scores as they are.
StepNoFaceKeepsScores(h) ==
    /\ NewFrame
    /\ lastVideoTimeRef' = currentTime
    /\ lastStep' = [kind |-> "detect", nfaces |-> 0, lmLen |-> 0]
    /\ faces' = 0
    /\ scores' = scores
    /\ Rearm(h)

\* New frame, the detector returns no face
StepNoFace(h) ==
    /\ NewFrame
    /\ lastVideoTimeRef' = currentTime
    /\ lastStep' = [kind |-> "detect", nfaces |-> 0, lmLen |-> 0]
    /\ faces' = 0
    /\ scores' = ZeroScores
    /\ Rearm(h)

\* New frame with a face whose landmarks cover every region: drawAndScore
\* publishes the ScoreSet of what it samples from the overlay canvas
StepScore(h) ==
    /\ NewFrame
    /\ lastVideoTimeRef' = currentTime
    /\ \E r \in Results, g \in Geometries :
          /\ r.nfaces > 0
          /\ ~DrawAndScoreRaises(r.lmLen)
          /\ lastStep' = [kind |-> "detect", nfaces |-> r.nfaces, lmLen |-> r.lmLen]
          /\ faces' = r.nfaces
          /\ scores' = CanvasScores[g]
    /\ Rearm(h)

\* New frame with a face whose landmark list misses a region index: the
\* TypeError leaves drawAndScore and step, after setFaces and before
\* setScores and requestAnimationFrame
StepRaise(h) ==
    /\ NewFrame
    /\ lastVideoTimeRef' = currentTime
    /\ \E r \in Results :
          /\ r.nfaces > 0
          /\ DrawAndScoreRaises(r.lmLen)
          /\ lastStep' = [kind |-> "raise", nfaces |-> r.nfaces, lmLen |-> r.lmLen]
          /\ faces' = r.nfaces
    /\ pending' = pending \ {h}
    /\ UNCHANGED << scores, rafRef >>

\* A step that runs the detector on every callback.
StepNoDedup(h) ==
    /\ h \in pending
    /\ lastVideoTimeRef' = currentTime
    /\ lastStep' = [kind |-> "detect", nfaces |-> 0, lmLen |-> 0]
    /\ faces' = 0
    /\ scores' = ZeroScores
    /\ Rearm(h)
    /\ UNCHANGED stepFrame
    /\ UNCHANGED mountVars
    /\ UNCHANGED notSession

\* The browser runs the scheduled callback h
Step(h) ==
    /\ h \in pending
    /\ \/ StepSkip(h)
       \/ StepNoFace(h)
       \/ StepScore(h)
       \/ StepRaise(h)
    /\ UNCHANGED stepFrame
    /\ UNCHANGED mountVars
    /\ UNCHANGED notSession

-----------------------------------------------------------------------------

Init ==
    /\ SessionInit
    /\ scores = ZeroScores
    /\ ScoreIdle
    /\ TriggerIdle
    /\ SampleIdle

Next ==
    \/ LandmarkerLoaded
    \/ LandmarkerFailed
    \/ \E c \in Calls : StartCamera(c)
    \/ \E c \in Calls : MediaReject(c)
    \/ \E c \in Calls : MediaResolve(c)
    \/ LoadedMetadata
    \/ DataReady
    \/ TimeAdvance
    \/ \E c \in Calls : PlayResolve(c)
    \/ \E c \in Calls : PlayReject(c)
    \/ \E h \in Handles : Step(h)
    \/ StopAll

Spec == Init /\ [][Next]_vars

\* The shapes of the session's variables; a fresh handle is always available
TypeOK ==
    /\ status \in {"Stopped", "Starting", "Running"}
    /\ faces \in 0..NumFaces
    /\ rafRef \in {0} \cup Handles
    /\ pending \subseteq Handles
    /\ Cardinality(pending) < Cardinality(Handles)
    /\ liveStreams \subseteq Streams
    /\ srcObject \in {0} \cup liveStreams
    /\ readyState \in 0..2
    /\ currentTime \in 0..MaxTime
    /\ lastVideoTimeRef \in -1..MaxTime
    /\ pending # {} => landmarkerRef = "loaded"

-----------------------------------------------------------------------------
(* Properties of the camera session *)

(* C1: after stopAll has run, and until a later startCamera reaches
   "Running", no step callback is left scheduled, so none executes or
   re-arms: every scheduled-but-not-yet-executed step is discarded, not
   only the one whose handle is in rafRef. *)
C1_NoStepAfterStop == stopAllRan => pending = {}

(* C2: a step that runs while video.currentTime equals lastVideoTimeRef
   invokes no detection, leaves faces, scores and lastVideoTimeRef as they
   are and re-arms; and every step that does invoke the detector saw a
   timestamp different from the last processed one and records it, so the
   detector runs at most once per run of callbacks seeing one timestamp. *)
C2_DedupGuard ==
    [][ \A h \in Handles :
          Step(h) =>
             /\ currentTime = lastVideoTimeRef =>
                   /\ lastStep'.kind = "skip"
                   /\ faces' = faces
                   /\ scores' = scores
                   /\ lastVideoTimeRef' = lastVideoTimeRef
                   /\ rafRef' \in pending'
                   /\ Cardinality(pending') = Cardinality(pending)
             /\ lastStep'.kind # "skip" =>
                   /\ currentTime # lastVideoTimeRef
                   /\ lastVideoTimeRef' = currentTime ]_vars

\* A callback has just skipped a frame it had already processed, with the
\* face count and the scores of that frame still published.
C2_Witness ==
    /\ lastStep.kind = "skip"
    /\ readyState = 2
    /\ currentTime = lastVideoTimeRef
    /\ faces > 0
    /\ scores.lighting > 0
    /\ rafRef \in pending

(* C3: when stopAll returns, every camera stream acquired by an earlier
   startCamera has had its tracks stopped. *)
C3_StopReleasesCamera == [][ StopAll => liveStreams' = {} ]_vars

(* C8: in every reachable state each of the published lighting, redness and
   shine lies in [0,100]. *)
C8_ScoreRange ==
    /\ scores.lighting \in 0..100
    /\ scores.redness \in 0..100
    /\ scores.shine \in 0..100

\* A scored frame is published while the scan runs.
C8_Witness ==
    /\ status = "Running"
    /\ lastStep.kind = "detect"
    /\ faces > 0
    /\ scores.lighting > 0

(* C9: once stopAll has run, the published ScoreSet is {0,0,0} and the face
   count is 0, and they stay so until a subsequent startCamera reaches
   "Running": no callback scheduled before the stop overwrites them. *)
C9_ResetHeldAfterStop == stopAllRan => (faces = 0 /\ scores = ZeroScores)

(* C10: a step that processes a face whose landmark list lacks an index a
   region refers to does not raise: the dependent scores are published as
   0 and the callback re-arms. *)
C10_MissingLandmarksAbsorbed ==
    [][ \A h \in Handles :
          (Step(h) /\ lastStep'.nfaces > 0 /\ DrawAndScoreRaises(lastStep'.lmLen)) =>
                /\ lastStep'.kind # "raise"
                /\ scores' = ZeroScores
                /\ rafRef' \in pending'
                /\ Cardinality(pending') = Cardinality(pending) ]_vars

\* The picture the camera delivers: every pixel of the video frame under the
\* cheek and nose polygons is the same gray
VideoFrame == Gray

\* What getImageData would hand to the scorers for a region of n grid points
\* if the buffer held the pixels of the video frame
FrameSamples(n) == << [c |-> VideoFrame, n |-> n] >>

(* C12: the scores drawAndScore publishes are computed from the pixels of
   the video frame: on a uniform gray (128,128,128) frame every scored
   face is published as lighting 38, redness 17, shine 0 (all 0 when the
   cheeks give fewer than 80 samples), not as the scores of the overlay
   paint that was just drawn. *)
C12_ScoresFromFrame ==
    [][ \A h \in Handles :
          (Step(h) /\ lastStep'.kind = "detect" /\ lastStep'.nfaces > 0) =>
              \E g \in Geometries :
                  scores' = ScoreSet(FrameSamples(g.cheekN), FrameSamples(g.noseN)) ]_vars

(* C13: when getUserMedia or video.play() rejects inside a startCamera
   call, that call schedules no step, invokes no detection, and leaves the
   status "Stopped". *)
C13_AcquisitionFailure ==
    [][ \A c \in Calls :
          (MediaReject(c) \/ PlayReject(c)) =>
              /\ status' = "Stopped"
              /\ pending' = pending
              /\ rafRef' = rafRef
              /\ lastStep' = lastStep
              /\ lastCall' = "rejected" ]_vars

\* With the detector loaded, a start has been rejected: the status is
\* "Stopped", nothing is scheduled and no frame was processed.
C13_Witness ==
    /\ lastCall = "rejected"
    /\ landmarkerRef = "loaded"
    /\ status = "Stopped"
    /\ pending = {}
    /\ lastStep.kind = "none"

(* C14: while the detector is not loaded (the load failed or is still
   running) no startCamera leaves the scan running: no step callback is
   scheduled, no detection has run and the status is not "Running"; and
   once the load has ended, nothing starts it again. *)
C14_InitializationFailure ==
    /\ []( landmarkerRef = "null" =>
              /\ pending = {}
              /\ status # "Running"
              /\ lastStep.kind = "none" )
    /\ [][ initPc = "done" =>
              /\ initPc' = "done"
              /\ landmarkerRef' = landmarkerRef
              /\ created' = created ]_vars

\* The load failed, a startCamera went through to runLoop with a playing
\* stream attached, and the scan is not running.
C14_Witness ==
    /\ lastCall = "noLandmarker"
    /\ initPc = "done"
    /\ landmarkerRef = "null"
    /\ srcObject # 0
    /\ readyState = 2
    /\ status = "Stopped"
    /\ pending = {}

(* C19: at most one step callback is pending at any time, and rafRef holds
   the handle of that callback, so cancelling rafRef.current halts all
   frame processing. *)
C19_SingleLoop ==
    /\ Cardinality(pending) <= 1
    /\ pending # {} => pending = {rafRef}

\* No startCamera call is between its first line and its return
Quiescent == \A c \in Calls : callPc[c] = "idle"

(* C21: in every quiescent state (no startCamera call in flight) in which
   the status is "Stopped", no acquired camera stream is still live and
   attached to the video element; in particular when startCamera acquired
   the camera and runLoop returned early because the detector was not
   loaded. *)
C21_NoLiveCameraWhileStopped ==
    (Quiescent /\ status = "Stopped") => srcObject \notin liveStreams

(* C22: a step that processes a new frame for which the detector returns
   zero faces publishes the face count 0 and the ScoreSet {0,0,0}; after
   every processed frame the face count is the number of faces the
   detector returned for it; and a ScoreSet is published for a frame with
   faces only from the landmarks of the first face, landmarks[0]: when
   they cover the three regions it is one drawAndScore computes, and when
   they do not none is published.  A frame is processed exactly when its
   time is stored in lastVideoTimeRef (App.js 160, the only assignment). *)
C22_NoFaceClearsScores ==
    [][ (lastVideoTimeRef' # lastVideoTimeRef) =>
             /\ lastStep'.kind # "skip"
             /\ faces' = lastStep'.nfaces
             /\ lastStep'.nfaces = 0 => (faces' = 0 /\ scores' = ZeroScores)
             /\ lastStep'.nfaces > 0 =>
                   IF DrawAndScoreRaises(lastStep'.lmLen)
                   THEN scores' = scores
                   ELSE \E g \in Geometries : scores' = CanvasScores[g] ]_vars

\* The scan runs and the callback has just processed a frame after the first
\* one on which the detector found no face: count and scores are cleared.
C22_Witness ==
    /\ status = "Running"
    /\ lastStep = [kind |-> "detect", nfaces |-> 0, lmLen |-> 0]
    /\ lastVideoTimeRef = currentTime
    /\ currentTime > 0
    /\ faces = 0
    /\ scores = ZeroScores
    /\ rafRef \in pending

-----------------------------------------------------------------------------
(* stopAll during a startCamera call: App.js 96-144 *)

\* What the load of the landmarker can have come to
LandmarkerStates ==
    { [initPc |-> "loading", ref |-> "null", created |-> 0],
      [initPc |-> "done", ref |-> "null", created |-> 0],
      [initPc |-> "done", ref |-> "loaded", created |-> 1] }

\* What the session holds before the startCamera call that is stopped:
\* nothing, or the leftovers of an earlier scan that was stopped after a
\* frame without a face (the handle and the frame time stay in the refs,
\* the resolver stays on the element)
Earlier ==
    { [t |-> -1, kind |-> "none", raf |-> 0, resolver |-> 0] }
    \cup { [t |-> t, kind |-> "detect", raf |-> 1, resolver |-> 1] : t \in 0..MaxTime }

\* The states stopAll leaves behind when it is clicked while a startCamera
\* call is awaiting getUserMedia, loadedmetadata (the call then never
\* resumes) or play()
InitStopRace ==
    /\ status = "Stopped"
    /\ faces = 0
    /\ scores = ZeroScores
    /\ srcObject = 0
    /\ readyState = 0
    /\ currentTime = 0
    /\ pending = {}
    /\ liveStreams = {}
    /\ stopAllRan = TRUE
    /\ lastCall = "none"
    /\ cancelled = FALSE
    /\ closed = 0
    /\ \E l \in LandmarkerStates, e \in Earlier :
          /\ e.kind # "none" => l.ref = "loaded"
          /\ initPc = l.initPc
          /\ landmarkerRef = l.ref
          /\ created = l.created
          /\ rafRef = e.raf
          /\ lastVideoTimeRef = e.t
          /\ lastStep = [kind |-> e.kind, nfaces |-> 0, lmLen |-> 0]
          /\ onloadedmetadata \in {e.resolver, 1}
    /\ \/ /\ callPc = [c \in Calls |-> IF c = 1 THEN "awaitMedia" ELSE "idle"]
          /\ callStream = [c \in Calls |-> 0]
          /\ onloadedmetadata = IF rafRef = 0 THEN 0 ELSE 1
       \/ /\ callPc = [c \in Calls |-> "idle"]
          /\ callStream = [c \in Calls |-> 0]
          /\ onloadedmetadata = 1
       \/ /\ callPc = [c \in Calls |-> IF c = 1 THEN "awaitPlay" ELSE "idle"]
          /\ callStream = [c \in Calls |-> IF c = 1 THEN 1 ELSE 0]
          /\ onloadedmetadata = 1
    /\ ScoreIdle
    /\ TriggerIdle
    /\ SampleIdle

\* What follows the stop when Start is not clicked again
NextStopRace ==
    \/ StopAll
    \/ LandmarkerLoaded
    \/ LandmarkerFailed
    \/ \E c \in Calls : MediaReject(c)
    \/ \E c \in Calls : MediaResolve(c)
    \/ LoadedMetadata
    \/ DataReady
    \/ TimeAdvance
    \/ \E c \in Calls : PlayResolve(c)
    \/ \E c \in Calls : PlayReject(c)
    \/ \E h \in Handles : Step(h)

SpecStopRace == InitStopRace /\ [][NextStopRace]_vars

(* C20: when stopAll has run while a startCamera call was awaiting the
   camera, the metadata or play(), the call resuming afterwards does not
   set the status to "Running", schedules no step, and leaves no acquired
   stream live once it has returned. *)
C20_StopNotOverridden ==
    /\ status # "Running"
    /\ pending = {}
    /\ (\A c \in Calls : callPc[c] = "idle") => liveStreams = {}

-----------------------------------------------------------------------------
(* The mount effect's cleanup: App.js 86-92 *)

\* The cleanup the effect returns, run when the component unmounts:
\* cancelled = true, the handle in rafRef is cancelled, and close() is called
\* on the instance landmarkerRef holds, if it holds one
Teardown ==
    /\ ~cancelled
    /\ cancelled' = TRUE
    /\ pending' = IF rafRef # 0 THEN pending \ {rafRef} ELSE pending
    /\ closed' = IF landmarkerRef = "loaded" THEN closed + 1 ELSE closed
    /\ UNCHANGED << status, faces, scores, landmarkerRef, rafRef, lastVideoTimeRef,
                    srcObject, readyState, currentTime, onloadedmetadata,
                    liveStreams, initPc, callPc, callStream, lastStep, stopAllRan,
                    lastCall, created >>
    /\ UNCHANGED notSession

\* The life of one mount.  Once the cleanup has run the component is gone:
\* its buttons cannot be clicked any more, and of what is still in flight
\* only the load of the landmarker is followed.
NextMount ==
    \/ ~cancelled /\ Next
    \/ Teardown
    \/ cancelled /\ (LandmarkerLoaded \/ LandmarkerFailed)

SpecMount == Init /\ [][NextMount]_vars

(* C15: at most one FaceLandmarker instance is created per mount, and once
   the cleanup has run every instance that was created has been closed,
   also when createFromOptions resolves after the cleanup. *)
C15_DetectorReleased ==
    /\ created <= 1
    /\ cancelled => closed = created

-----------------------------------------------------------------------------
(* AutoTriggerController and the classification response handler.  The
   revision that wires analyzeSkin (App.js 25-32) into the frame loop is not
   among the sources; both are modelled from sections 4.5, 5 and 8 of the
   specification. *)

\* Default cooldown window
CooldownMs == 2500

\* The scenario of section 8: a step every 100 ms over a 10,000 ms window
StepMs == 100
WindowMs == 10000

Lightings == {20, LightingThreshold, 60}
FaceCounts == {0, 1}

\* A session in which the scan runs: the state startCamera leaves behind
\* when the landmarker is loaded and the camera started
RunningSession ==
    /\ status = "Running"
    /\ faces = 0
    /\ landmarkerRef = "loaded"
    /\ rafRef = 1
    /\ lastVideoTimeRef = -1
    /\ srcObject = 1
    /\ readyState = 2
    /\ currentTime = 0
    /\ onloadedmetadata = 1
    /\ pending = {1}
    /\ liveStreams = {1}
    /\ initPc = "done"
    /\ callPc = [c \in Calls |-> "idle"]
    /\ callStream = [c \in Calls |-> 0]
    /\ lastStep = [kind |-> "none", nfaces |-> 0, lmLen |-> 0]
    /\ stopAllRan = FALSE
    /\ lastCall = "running"
    /\ cancelled = FALSE
    /\ created = 1
    /\ closed = 0

\* A controller that ignores the cooldown.
ShouldFireNoCooldown(lighting, nfaces, now, last) ==
    /\ lighting >= LightingThreshold
    /\ nfaces >= 1

\* Fire only when lighting >= threshold, a face is detected and a cooldown
\* has elapsed since the last fire (last < 0: no fire yet)
ShouldFire(lighting, nfaces, now, last) ==
    /\ lighting >= LightingThreshold
    /\ nfaces >= 1
    /\ (last < 0 \/ now - last >= CooldownMs)

\* The frame step at time nowMs publishes the lighting score and the face
\* count and forwards them to the controller, which may fire a
\* classification call without waiting for its answer
TriggerStep(lighting, nfaces) ==
    /\ status = "Running"
    /\ nowMs < WindowMs
    /\ nowMs' = nowMs + StepMs
    /\ faces' = nfaces
    /\ scores' = [lighting |-> lighting, redness |-> 0, shine |-> 0]
    /\ favourable' = (favourable /\ lighting = 60 /\ nfaces >= 1)
    /\ IF ShouldFire(lighting, nfaces, nowMs, lastFireMs)
       THEN /\ lastFireMs' = nowMs
            /\ fires' = fires + 1
            /\ inflight' = inflight + 1
            /\ classification' = [status |-> "Running", result |-> classification.result]
       ELSE UNCHANGED << lastFireMs, fires, inflight, classification >>
    /\ UNCHANGED << status, landmarkerRef, rafRef, lastVideoTimeRef, srcObject,
                    readyState, currentTime, onloadedmetadata, pending,
                    liveStreams, initPc, callPc, callStream, lastStep, stopAllRan,
                    lastCall >>
    /\ UNCHANGED mountVars
    /\ UNCHANGED scoreVars
    /\ UNCHANGED sampleVars

\* A response handler that applies every response.
ResponseUnchecked(ok) ==
    /\ inflight > 0
    /\ inflight' = inflight - 1
    /\ classification' = [status |-> IF ok THEN "Done" ELSE "Failed",
                          result |-> IF ok THEN 1 ELSE 0]
    /\ UNCHANGED << nowMs, lastFireMs, fires, favourable >>
    /\ UNCHANGED scores
    /\ UNCHANGED sessionVars
    /\ UNCHANGED scoreVars
    /\ UNCHANGED sampleVars

\* The answer to a classification call arrives: the handler applies it only
\* while the session is still running
Response(ok) ==
    /\ inflight > 0
    /\ inflight' = inflight - 1
    /\ IF status = "Running"
       THEN classification' = [status |-> IF ok THEN "Done" ELSE "Failed",
                               result |-> IF ok THEN 1 ELSE 0]
       ELSE UNCHANGED classification
    /\ UNCHANGED << nowMs, lastFireMs, fires, favourable >>
    /\ UNCHANGED scores
    /\ UNCHANGED sessionVars
    /\ UNCHANGED scoreVars
    /\ UNCHANGED sampleVars

InitTrigger ==
    /\ RunningSession
    /\ scores = ZeroScores
    /\ ScoreIdle
    /\ TriggerIdle
    /\ SampleIdle

NextTrigger ==
    \/ \E l \in Lightings, f \in FaceCounts : TriggerStep(l, f)
    \/ \E ok \in BOOLEAN : Response(ok)
    \/ StopAll

SpecTrigger == InitTrigger /\ [][NextTrigger]_vars

(* C4: the controller fires only when lighting >= 35, a face is detected
   and at least 2500 ms have elapsed since the last fire, so two fires are
   never closer than the cooldown; with lighting 60 and a face at every
   step, steps every 100 ms over 10,000 ms, exactly 4 fires occur, at
   t = 0, 2500, 5000 and 7500. *)
C4_AutoTrigger ==
    /\ [][ \A l \in Lightings, f \in FaceCounts :
             (TriggerStep(l, f) /\ fires' # fires) =>
                /\ l >= LightingThreshold
                /\ f >= 1
                /\ (fires = 0 \/ nowMs - lastFireMs >= CooldownMs)
                /\ (favourable' => nowMs \in {0, 2500, 5000, 7500}) ]_vars
    /\ []( (favourable /\ nowMs = WindowMs) => (fires = 4 /\ lastFireMs = 7500) )

\* The favourable scenario has run to the end of its window.
C4_Witness ==
    /\ favourable
    /\ nowMs = WindowMs
    /\ fires = 4

(* C5: a classification response that arrives after stopAll has run is
   discarded: the handler writes neither the classification status and
   result nor the scores. *)
C5_StaleResponseDiscarded ==
    [][ \A ok \in BOOLEAN :
          (Response(ok) /\ stopAllRan) =>
             (classification' = classification /\ scores' = scores) ]_vars

\* A call was fired, the session was stopped, and every answer has arrived
\* without the classification state leaving "Running".
C5_Witness ==
    /\ stopAllRan
    /\ fires > 0
    /\ inflight = 0
    /\ classification.status = "Running"

=============================================================================
